---- MODULE Spec2Model ----
(***************************************************************************)
(* A model of attatool's build orchestration core:                         *)
(*   - the selection algebra   (src/selectcmd.go),                         *)
(*   - the pathname expander   (src/unnamed/part_002, expandPathname...),  *)
(*   - the file materializer   (src/unnamed/part_002, generate/link...),   *)
(*   - the target lists        (src/targets.go).                           *)
(* Strings are sequences of one-character strings, so that splitting,      *)
(* searching and replacing are computed and not assumed.                   *)
(***************************************************************************)
EXTENDS Integers, Sequences, FiniteSets, TLC

VARIABLES
    \* ---- selection (packageRangesToFlatSelection) ----
    required,     \* pd.required of every package: name -> sequence of names
    selected,     \* map[string]bool
    marked,       \* map[string]int
    mark,         \* generation counter
    inclusion,    \* current mode
    nargs,        \* number of args consumed by the loop so far
    arg,          \* the arg consumed last
    spc,          \* "loop" | "done" | "error"
    selection,    \* the returned list (<<>> is nil)
    mode,         \* history: "include" | "exclude", as the tokens "+" and "-" set it
    lastTouch,    \* history: package -> the mode its last touching token ran under
    \* ---- pathname expansion (expandPathnameTemplate) ----
    pathnameParts,\* the pathname argument as written: placeholders and literals
    pathname,     \* the pathname argument, as text
    params,       \* templateParams: name -> value
    pending,      \* the names the range loop over params has not reached yet
    root,         \* the pathnameTemplateText chain
    resultSize,
    result,       \* []fileParams
    filling,      \* position in the chain of the multiplier the fill loop is at
    sliceSize,
    epc,          \* "idle" | "subst" | "fill" | "done"
    \* ---- materialization (generateBuildFilesFromEmbeddedTemplate) ----
    sources,      \* relative pathnames of the files in the package's source root
    templates,    \* the embeddedProjectTemplate: a list of fileTemplate
    pdParams,     \* pd.params
    fs,           \* projectDir: relative pathname -> what is there
    run,          \* which run of the materializer this is
    mpc,          \* "idle" | "link" | "templates" | "outputs" | "returned" | "done" | "error"
    walk,         \* what filepath.Walk has still to visit in the source root
    sourceFiles,  \* filesFromSourceDir, as linkFile has filled it
    tIdx,         \* index of the fileTemplate the loop over *t is at
    outputFiles,  \* outputFiles of the current generateFilesFromFileTemplate
    oIdx,         \* index of the outputFile its loop is at
    reports,      \* what this run has printed: [mode, file]
    earlier,      \* history: what the runs before this one printed
    \* ---- target lists (bootstrapTarget.targets, configureTarget.targets) ----
    targetName,   \* makeTargetData.targetName
    tgtSelection, \* makeTargetData.selection: a list of package names
    relBuildDir,  \* what filepath.Rel gives for the build directory
    executable,   \* what os.Executable gives: [cmd, err]
    globalTargetLocal, \* the local variable globalTarget
    targetList,   \* bootstrapTargets / configureTargets
    ti,           \* the index i of the loop over the selection
    tpc           \* "idle" | "global" | "loop" | "done" | "error"

selVars == <<required, selected, marked, mark, inclusion, nargs, arg, spc,
             selection, mode, lastTouch>>

expVars == <<pathnameParts, pathname, params, pending, root, resultSize,
             result, filling, sliceSize, epc>>

matVars == <<sources, templates, pdParams, fs, run, mpc, walk, sourceFiles,
             tIdx, outputFiles, oIdx, reports, earlier>>

tgtVars == <<targetName, tgtSelection, relBuildDir, executable, globalTargetLocal,
             targetList, ti, tpc>>

vars == <<selVars, expVars, matVars, tgtVars>>

----------------------------------------------------------------------------
(* Bounds *)

\* The longest selection a target type is made for.
MaxSelection == 2

\* The longest argument list the selection loop is run on.
MaxArgs == 3

\* The most parts (placeholders and literal pieces) a pathname template has.
MaxParts == 4

\* The most file templates a project template has.
MaxTemplates == 2

\* How many times in a row the materializer is run.
MaxRuns == 2

----------------------------------------------------------------------------
(* Sequences as sets; Go maps, where a missing key reads as the zero value *)

Elems(seq) == {seq[i] : i \in 1..Len(seq)}

MapGet(m, k, zero) == IF k \in DOMAIN m THEN m[k] ELSE zero

MapPut(m, k, v) == [x \in (DOMAIN m) \cup {k} |-> IF x = k THEN v ELSE m[x]]

----------------------------------------------------------------------------
(* The package index *)

\* pi.orderedPackages, by PackageName: the definition order.
orderedPackages == << <<"A">>, <<"B">>, <<"C">> >>

PackageNames == {orderedPackages[i] : i \in 1..Len(orderedPackages)}

\* A name that is not in the index.
UnknownName == <<"Z">>

\* pi.getPackageByName: the package of that name, or the error.
getPackageByName(pkgName) ==
    IF pkgName \in PackageNames
    THEN [pd |-> pkgName, err |-> FALSE]
    ELSE [pd |-> <<>>, err |-> TRUE]

getRequired(pd) == required[pd]

\* pd.dependent: the exact inverse of required, in definition order.
getDependent(pd) ==
    SelectSeq(orderedPackages,
              LAMBDA q : \E i \in 1..Len(required[q]) : required[q][i] = pd)

----------------------------------------------------------------------------
(* applyToSubtree: the sequence of packages the action is called on *)

RECURSIVE WalkRequired(_, _)
WalkRequired(queue, visits) ==
    LET pd == Head(queue)
        q2 == Tail(queue) \o getRequired(pd)
    IN  IF q2 = <<>> THEN Append(visits, pd)
        ELSE WalkRequired(q2, Append(visits, pd))

RECURSIVE WalkDependent(_, _)
WalkDependent(queue, visits) ==
    LET pd == Head(queue)
        q2 == Tail(queue) \o getDependent(pd)
    IN  IF q2 = <<>> THEN Append(visits, pd)
        ELSE WalkDependent(q2, Append(visits, pd))

DirRequired == "required"
DirDependent == "dependent"

\* A walk that follows the required edges whatever the direction asked for.
applyToSubtreeOneWay(rootPd, direction) == WalkRequired(<<rootPd>>, <<>>)

applyToSubtree(rootPd, direction) ==
    IF direction = DirRequired
    THEN WalkRequired(<<rootPd>>, <<>>)
    ELSE WalkDependent(<<rootPd>>, <<>>)

----------------------------------------------------------------------------
(* packageRangesToFlatSelection *)

\* The position of the first ":" of s, 0 when it has none.
IndexColon(s) ==
    IF \E i \in 1..Len(s) : s[i] = ":"
    THEN CHOOSE i \in 1..Len(s) :
             s[i] = ":" /\ \A j \in 1..(i - 1) : s[j] # ":"
    ELSE 0

\* strings.SplitN(s, ":", 2)
SplitN2(s) ==
    LET pos == IndexColon(s)
    IN  IF pos = 0 THEN <<s>>
        ELSE <<SubSeq(s, 1, pos - 1), SubSeq(s, pos + 1, Len(s))>>

\* A selectPackage that sets the flag whatever the mode.
selectPackageAlways(visits, sel, incl) ==
    [x \in (DOMAIN sel) \cup {visits[i] : i \in 1..Len(visits)} |->
        IF \E i \in 1..Len(visits) : visits[i] = x THEN TRUE ELSE sel[x]]

\* The three closures handed to applyToSubtree, folded over its calls.
RECURSIVE selectPackage(_, _, _)
selectPackage(visits, sel, incl) ==
    IF visits = <<>> THEN sel
    ELSE selectPackage(Tail(visits), MapPut(sel, Head(visits), incl), incl)

RECURSIVE markPackage(_, _, _)
markPackage(visits, mkd, mk) ==
    IF visits = <<>> THEN mkd
    ELSE markPackage(Tail(visits), MapPut(mkd, Head(visits), mk), mk)

\* A mark test that accepts the marks of earlier generations and no mark.
selectIfMarkedTestLoose(mkd, pd, mk) == MapGet(mkd, pd, 0) <= mk

selectIfMarkedTest(mkd, pd, mk) == MapGet(mkd, pd, 0) = mk

RECURSIVE selectIfMarked(_, _, _, _, _)
selectIfMarked(visits, sel, incl, mkd, mk) ==
    IF visits = <<>> THEN sel
    ELSE selectIfMarked(Tail(visits),
                        IF selectIfMarkedTest(mkd, Head(visits), mk)
                        THEN MapPut(sel, Head(visits), incl)
                        ELSE sel,
                        incl, mkd, mk)

\* A lookup that reports an unknown name on the left of the range only.
lookupRangeLeftOnly(parts, pkgRange, emptyRange) ==
    LET got == [i \in 1..Len(parts) |-> getPackageByName(parts[i])]
        found(i) == parts[i] # <<>> /\ ~got[i].err
    IN  IF parts[1] # <<>> /\ got[1].err
        THEN [err |-> TRUE, pkgRange |-> <<>>, emptyRange |-> emptyRange]
        ELSE [err |-> FALSE,
              pkgRange |-> [i \in 1..Len(parts) |->
                              IF found(i) THEN got[i].pd ELSE <<>>],
              emptyRange |-> \A i \in 1..Len(parts) : ~found(i)]

\* The inner loop over the parts of one arg: the looked-up range, or the error
\* of the first unknown name.  A nil *packageDefinition is <<>>.
RECURSIVE lookupRange(_, _, _)
lookupRange(parts, pkgRange, emptyRange) ==
    IF parts = <<>>
    THEN [err |-> FALSE, pkgRange |-> pkgRange, emptyRange |-> emptyRange]
    ELSE LET pkgName == Head(parts)
             got == getPackageByName(pkgName)
         IN  IF pkgName # <<>>
             THEN IF got.err
                  THEN [err |-> TRUE, pkgRange |-> <<>>, emptyRange |-> emptyRange]
                  ELSE lookupRange(Tail(parts), Append(pkgRange, got.pd), FALSE)
             ELSE lookupRange(Tail(parts), Append(pkgRange, <<>>), emptyRange)

\* A two-sided range that marks with the generation it found, not a fresh one.
rangeBothStaleMark(st, from, to) ==
    LET mk  == st.mark
        mkd == markPackage(applyToSubtree(to, DirRequired), st.marked, mk)
    IN  [st EXCEPT !.marked = mkd,
                   !.selected = selectIfMarked(applyToSubtree(from, DirDependent),
                                               st.selected, st.inclusion, mkd, mk)]

\* The state a two-sided range leaves: mark++, mark TO's requirements, select
\* the marked among FROM's dependents.
rangeBoth(st, from, to) ==
    LET mk  == st.mark + 1
        mkd == markPackage(applyToSubtree(to, DirRequired), st.marked, mk)
    IN  [st EXCEPT !.mark = mk,
                   !.marked = mkd,
                   !.selected = selectIfMarked(applyToSubtree(from, DirDependent),
                                               st.selected, st.inclusion, mkd, mk)]

\* One iteration of the loop over args, on the state
\* st = [selected, marked, mark, inclusion, err].
loopBody(st, a) ==
    IF a = <<"+">> THEN [st EXCEPT !.inclusion = TRUE]
    ELSE IF a = <<"-">> THEN [st EXCEPT !.inclusion = FALSE]
    ELSE LET r == lookupRange(SplitN2(a), <<>>, TRUE)
         IN  IF r.err THEN [st EXCEPT !.err = TRUE]
             ELSE IF r.emptyRange THEN st
             ELSE IF Len(r.pkgRange) = 1
                  THEN [st EXCEPT !.selected = MapPut(st.selected, a, st.inclusion)]
             ELSE LET from == r.pkgRange[1]
                      to   == r.pkgRange[2]
                  IN  IF from = <<>>
                      THEN [st EXCEPT !.selected =
                               selectPackage(applyToSubtree(to, DirRequired),
                                             st.selected, st.inclusion)]
                      ELSE IF to = <<>>
                      THEN [st EXCEPT !.selected =
                               selectPackage(applyToSubtree(from, DirDependent),
                                             st.selected, st.inclusion)]
                      ELSE rangeBoth(st, from, to)

\* A final loop that walks pi.orderedPackages from its end.
flatSelectionBackwards(sel) ==
    LET fwd == SelectSeq(orderedPackages, LAMBDA pd : MapGet(sel, pd, FALSE))
    IN  [i \in 1..Len(fwd) |-> fwd[Len(fwd) + 1 - i]]

\* The final loop over pi.orderedPackages.
flatSelection(sel) ==
    SelectSeq(orderedPackages, LAMBDA pd : MapGet(sel, pd, FALSE))

----------------------------------------------------------------------------
(* The inputs of the selection: package graphs and argument tokens *)

Pairs == {pq \in PackageNames \X PackageNames : pq[1] # pq[2]}

\* E holds <<p, q>> when p requires q.
RECURSIVE ReachVia(_, _)
ReachVia(E, S) ==
    LET N == S \cup {pq[2] : pq \in {e \in E : e[1] \in S}}
    IN  IF N = S THEN S ELSE ReachVia(E, N)

Acyclic(E) == \A pq \in E : pq[1] \notin ReachVia(E, {pq[2]})

\* Every acyclic "requires" relation over the index.
Graphs == {E \in SUBSET Pairs : Acyclic(E)}

RequiredOf(E) ==
    [p \in PackageNames |->
        SelectSeq(orderedPackages, LAMBDA q : <<p, q>> \in E)]

AnyName == PackageNames \cup {UnknownName}

Bare(P) == P
Range(F, T) == F \o <<":">> \o T

\* The shapes of a token: "+", "-", a bare name (the empty arg included),
\* and "FROM:TO" with either side possibly empty or unknown, or with a second
\* colon in TO.
TokenShapes ==
    {[kind |-> k, from |-> <<>>, to |-> <<>>] : k \in {"plus", "minus"}}
    \cup {[kind |-> "bare", from |-> P, to |-> <<>>] : P \in AnyName \cup {<<>>}}
    \cup {[kind |-> "range", from |-> F, to |-> T] :
             F \in AnyName \cup {<<>>}, T \in AnyName \cup {<<>>}}
    \cup {[kind |-> "range", from |-> <<"A">>, to |-> Range(<<"B">>, <<"C">>)]}

\* The text of a token of shape d.
Text(d) ==
    CASE d.kind = "plus" -> <<"+">>
      [] d.kind = "minus" -> <<"-">>
      [] d.kind = "bare" -> Bare(d.from)
      [] OTHER -> Range(d.from, d.to)

----------------------------------------------------------------------------
(* What the tokens mean, stated over the graph and not over the walk *)

RequiresEdges == {pq \in Pairs :
                    \E i \in 1..Len(required[pq[1]]) : required[pq[1]][i] = pq[2]}

DependentEdges == {<<pq[2], pq[1]>> : pq \in RequiresEdges}

\* P and everything P transitively requires.
RequiredClosure(P) == ReachVia(RequiresEdges, {P})

\* P and everything that transitively depends on P.
DependentClosure(P) == ReachVia(DependentEdges, {P})

\* The packages a token of shape d touches.
Touched(d) ==
    CASE d.kind = "bare" /\ d.from \in PackageNames -> {d.from}
      [] d.kind = "range" /\ d.from \in PackageNames /\ d.to = <<>> ->
             DependentClosure(d.from)
      [] d.kind = "range" /\ d.from = <<>> /\ d.to \in PackageNames ->
             RequiredClosure(d.to)
      [] d.kind = "range" /\ d.from \in PackageNames /\ d.to \in PackageNames ->
             DependentClosure(d.from) \cap RequiredClosure(d.to)
      [] OTHER -> {}

ModeAfter(m, a) ==
    IF a = <<"+">> THEN "include" ELSE IF a = <<"-">> THEN "exclude" ELSE m

----------------------------------------------------------------------------
(* The selection as a state machine: one step per loop iteration *)

\* The selection before it is called.
IdleSel ==
    /\ required = [p \in PackageNames |-> <<>>]
    /\ selected = <<>>
    /\ marked = <<>>
    /\ mark = 0
    /\ inclusion = TRUE
    /\ nargs = 0
    /\ arg = <<>>
    /\ spc = "idle"
    /\ selection = <<>>
    /\ mode = "include"
    /\ lastTouch = [p \in PackageNames |-> "none"]

\* The expander before it is called.
IdleExp ==
    /\ pathnameParts = <<>>
    /\ pathname = <<>>
    /\ params = <<>>
    /\ pending = {}
    /\ root = [text |-> <<>>, next |-> <<>>]
    /\ resultSize = 1
    /\ result = <<>>
    /\ filling = 0
    /\ sliceSize = 1
    /\ epc = "idle"

\* The materializer before it is called.
IdleMat ==
    /\ sources = {}
    /\ templates = <<>>
    /\ pdParams = <<>>
    /\ fs = <<>>
    /\ run = 0
    /\ mpc = "idle"
    /\ walk = <<>>
    /\ sourceFiles = {}
    /\ tIdx = 0
    /\ outputFiles = <<>>
    /\ oIdx = 0
    /\ reports = {}
    /\ earlier = {}

\* The target types before targets() is called.
NoTarget == [Target |-> <<>>, Phony |-> FALSE, Dependencies |-> <<>>,
             MakeScript |-> <<>>]

IdleTgt ==
    /\ targetName = <<>>
    /\ tgtSelection = <<>>
    /\ relBuildDir = <<>>
    /\ executable = [cmd |-> <<>>, err |-> FALSE]
    /\ globalTargetLocal = NoTarget
    /\ targetList = <<>>
    /\ ti = 0
    /\ tpc = "idle"

InitSel ==
    /\ IdleTgt
    /\ IdleExp
    /\ IdleMat
    /\ \E E \in Graphs : required = RequiredOf(E)
    /\ selected = <<>>
    /\ marked = <<>>
    /\ mark = 0
    /\ inclusion = TRUE
    /\ nargs = 0
    /\ arg = <<>>
    /\ spc = "loop"
    /\ selection = <<>>
    /\ mode = "include"
    /\ lastTouch = [p \in PackageNames |-> "none"]

\* The loop takes the next arg.
SelectArg ==
    /\ spc = "loop"
    /\ nargs < MaxArgs
    /\ \E d \in TokenShapes :
         LET a  == Text(d)
             st == loopBody([selected |-> selected, marked |-> marked,
                             mark |-> mark, inclusion |-> inclusion,
                             err |-> FALSE], a)
         IN  /\ arg' = a
             /\ nargs' = nargs + 1
             /\ selected' = st.selected
             /\ marked' = st.marked
             /\ mark' = st.mark
             /\ inclusion' = st.inclusion
             /\ spc' = IF st.err THEN "error" ELSE "loop"
             /\ mode' = ModeAfter(mode, a)
             /\ lastTouch' = [p \in PackageNames |->
                                IF p \in Touched(d) THEN mode ELSE lastTouch[p]]
    /\ UNCHANGED <<required, selection>>
    /\ UNCHANGED <<expVars, matVars, tgtVars>>

\* The args are exhausted: the selection is collected and returned.
SelectReturn ==
    /\ spc = "loop"
    /\ selection' = flatSelection(selected)
    /\ spc' = "done"
    /\ UNCHANGED <<required, selected, marked, mark, inclusion, nargs, arg,
                   mode, lastTouch>>
    /\ UNCHANGED <<expVars, matVars, tgtVars>>

NextSel == SelectArg \/ SelectReturn

SpecSel == InitSel /\ [][NextSel]_vars

----------------------------------------------------------------------------
(* Claims about the selection *)

\* The graph A <- B <- C (B requires A, C requires B).
ChainGraph ==
    required = [p \in PackageNames |->
                   CASE p = <<"B">> -> << <<"A">> >>
                     [] p = <<"C">> -> << <<"B">> >>
                     [] OTHER -> <<>>]

\* The graph A <- B <- C with C requiring A directly as well: two paths join
\* C to A, so a walk from either end visits the other end twice.
TriangleGraph ==
    required = [p \in PackageNames |->
                   CASE p = <<"B">> -> << <<"A">> >>
                     [] p = <<"C">> -> << <<"A">>, <<"B">> >>
                     [] OTHER -> <<>>]

\* C1: on every acyclic graph, the single token "FROM:TO" in include mode with
\* nothing selected before returns exactly the packages that are FROM or
\* depend on FROM and are TO or are required by TO; with no path from FROM to
\* TO that set, and the result, is empty.
C1_RangeIsIntersection ==
    \A F \in PackageNames, T \in PackageNames :
        (spc = "done" /\ nargs = 1 /\ arg = Range(F, T))
            => /\ Elems(selection) =
                    {X \in PackageNames :
                        X \in DependentClosure(F) /\ X \in RequiredClosure(T)}
               /\ (T \notin DependentClosure(F) => selection = <<>>)

C1_Witness ==
    /\ ChainGraph
    /\ spc = "done" /\ nargs = 1
    /\ arg = <<"A", ":", "C">>
    /\ selection = << <<"A">>, <<"B">>, <<"C">> >>

\* C2: the token "P:" sets the flag of P and of every package reachable from P
\* through dependent edges to the current mode, ":P" does so along the required
\* edges, and no other package's flag changes, also when the walk visits a
\* package more than once.
C2_OneSidedStep ==
    \A P \in PackageNames :
        /\ (nargs' = nargs + 1 /\ arg' = Range(P, <<>>))
              => /\ spc' = "loop"
                 /\ \A X \in DependentClosure(P) :
                        X \in DOMAIN selected' /\ selected'[X] = inclusion
                 /\ \A X \in PackageNames \ DependentClosure(P) :
                        /\ (X \in DOMAIN selected') = (X \in DOMAIN selected)
                        /\ MapGet(selected', X, FALSE) = MapGet(selected, X, FALSE)
        /\ (nargs' = nargs + 1 /\ arg' = Range(<<>>, P))
              => /\ spc' = "loop"
                 /\ \A X \in RequiredClosure(P) :
                        X \in DOMAIN selected' /\ selected'[X] = inclusion
                 /\ \A X \in PackageNames \ RequiredClosure(P) :
                        /\ (X \in DOMAIN selected') = (X \in DOMAIN selected)
                        /\ MapGet(selected', X, FALSE) = MapGet(selected, X, FALSE)

C2_OneSidedRange == [][C2_OneSidedStep]_vars

\* ":C" on the triangle, in exclude mode, after an earlier token selected
\* only C: the walk from C calls the action on A twice.
C2_Witness ==
    /\ TriangleGraph
    /\ nargs = 3 /\ spc = "loop"
    /\ arg = <<":", "C">>
    /\ ~inclusion
    /\ Len(applyToSubtree(<<"C">>, DirRequired)) > Cardinality(PackageNames)
    /\ DOMAIN selected = PackageNames
    /\ \A X \in PackageNames : ~selected[X]

Position(pd) == CHOOSE i \in 1..Len(orderedPackages) : orderedPackages[i] = pd

\* C3: the returned list holds known packages in strictly increasing
\* definition order (a subsequence of pi.orderedPackages, nothing twice) and
\* holds exactly the packages whose flag is set: the list is determined by
\* the set of selected packages alone, whatever the order of the tokens.
C3_DefinitionOrder ==
    spc = "done" =>
        /\ Elems(selection) \subseteq PackageNames
        /\ \A i \in 1..Len(selection), j \in 1..Len(selection) :
               i < j => Position(selection[i]) < Position(selection[j])
        /\ Elems(selection) = {pd \in PackageNames : MapGet(selected, pd, FALSE)}

\* On the graph without edges, C was selected first and A last.
C3_Witness ==
    /\ \A p \in PackageNames : required[p] = <<>>
    /\ spc = "done" /\ nargs = 2
    /\ arg = <<"A">>
    /\ selection = << <<"A">>, <<"C">> >>

\* C4: a package is in the returned selection exactly when the last token
\* that touched it was applied in include mode (include at the start, exclude
\* after "-", include again after "+"); a package no token touched is not
\* selected.
C4_LastWriteWins ==
    spc = "done" =>
        \A pd \in PackageNames :
            (pd \in Elems(selection)) <=> (lastTouch[pd] = "include")

\* On the chain: a range selects A, B and C, then "-", then "B" deselects B.
C4_Witness ==
    /\ ChainGraph
    /\ spc = "done" /\ nargs = 3
    /\ arg = <<"B">>
    /\ mode = "exclude"
    /\ lastTouch = [p \in PackageNames |->
                       IF p = <<"B">> THEN "exclude" ELSE "include"]
    /\ selection = << <<"A">>, <<"C">> >>

HasColon(s) == \E i \in 1..Len(s) : s[i] = ":"

NamesNothingKnown(n) == n # <<>> /\ n \notin PackageNames

\* A token other than "+" and "-" with a non-empty name that is not in the
\* index, as a bare name or on either side of its first ":".
NamesUnknownPackage(a) ==
    /\ a # <<"+">>
    /\ a # <<"-">>
    /\ \/ ~HasColon(a) /\ NamesNothingKnown(a)
       \/ \E i \in 1..Len(a) :
              /\ a[i] = ":"
              /\ ~HasColon(SubSeq(a, 1, i - 1))
              /\ \/ NamesNothingKnown(SubSeq(a, 1, i - 1))
                 \/ NamesNothingKnown(SubSeq(a, i + 1, Len(a)))

\* C5: the loop fails, and then returns no selection, exactly on a token that
\* names an unknown package, however many valid tokens came before; the token
\* ":" never fails and changes no flag.
C5_ErrorStep ==
    nargs' = nargs + 1 =>
        /\ (spc' = "error") <=> NamesUnknownPackage(arg')
        /\ spc' = "error" => selection' = <<>>
        /\ arg' = <<":">> => spc' = "loop" /\ selected' = selected

C5_UnknownPackage == [][C5_ErrorStep]_vars

\* An unknown name on the right of a range, after two valid tokens.
C5_Witness ==
    /\ spc = "error" /\ nargs = 3
    /\ arg = <<"A", ":", "Z">>
    /\ DOMAIN selected # {}
    /\ selection = <<>>

\* The packages the token "F:T" is about.
Intersection(F, T) == DependentClosure(F) \cap RequiredClosure(T)

\* A step of the loop on a token "F:T" with both names known, as C14 has it:
\* the packages of the intersection get the current mode, no other package's
\* flag changes, and the packages carrying the generation's mark afterwards
\* are exactly those T requires, whatever the ranges before have marked.
C14_TwoSidedStep ==
    \A F \in PackageNames, T \in PackageNames :
        (nargs' = nargs + 1 /\ arg' = Range(F, T))
            => /\ spc' = "loop"
               /\ \A X \in Intersection(F, T) :
                      X \in DOMAIN selected' /\ selected'[X] = inclusion
               /\ \A X \in PackageNames \ Intersection(F, T) :
                      /\ (X \in DOMAIN selected') = (X \in DOMAIN selected)
                      /\ MapGet(selected', X, FALSE) = MapGet(selected, X, FALSE)
               /\ mark' = mark + 1
               /\ \A X \in PackageNames :
                      (MapGet(marked', X, 0) = mark') = (X \in RequiredClosure(T))

\* C14: with several two-sided ranges in the token list, each "FROM:TO"
\* changes the flag only of the packages in its own intersection; a package
\* an earlier range marked that the current TO does not require is left
\* alone, and a package no range marked is never taken for marked.
C14_RangeFrame == [][C14_TwoSidedStep]_vars

\* On the chain, "A:C" selected all three, "-" turned to exclusion and "A:B"
\* deselected A and B: C, marked by the first range and a dependent of A,
\* kept its flag.
C14_Witness ==
    /\ ChainGraph
    /\ spc = "loop" /\ nargs = 3
    /\ arg = <<"A", ":", "B">>
    /\ ~inclusion
    /\ mark = 2
    /\ MapGet(marked, <<"C">>, 0) = 1
    /\ MapGet(selected, <<"C">>, FALSE)
    /\ <<"A">> \in DOMAIN selected /\ ~selected[<<"A">>]
    /\ <<"B">> \in DOMAIN selected /\ ~selected[<<"B">>]

----------------------------------------------------------------------------
(* Text, as package strings compute it *)

\* strings.Index(text, pat) + 1: the first position where pat occurs, 0 when
\* it does not.
Index(text, pat) ==
    LET at(i) == SubSeq(text, i, i + Len(pat) - 1) = pat
        hits  == {i \in 1..(Len(text) - Len(pat) + 1) : at(i)}
    IN  IF hits = {} THEN 0
        ELSE CHOOSE i \in hits : \A j \in hits : i <= j

\* strings.Replace(text, pat, val, -1) for a non-empty pat.
RECURSIVE Replace(_, _, _)
Replace(text, pat, val) ==
    IF Len(text) < Len(pat) THEN text
    ELSE IF SubSeq(text, 1, Len(pat)) = pat
         THEN val \o Replace(SubSeq(text, Len(pat) + 1, Len(text)), pat, val)
         ELSE <<Head(text)>> \o Replace(Tail(text), pat, val)

----------------------------------------------------------------------------
(* Template parameter values: a string, a []string, or anything else *)

StringValue(str) == [kind |-> "string", s |-> str, l |-> <<>>]
ListValue(list) == [kind |-> "list", s |-> <<>>, l |-> list]
\* A value of another type, with what fmt.Sprint makes of it.
OtherValue(repr) == [kind |-> "other", s |-> repr, l |-> <<>>]

----------------------------------------------------------------------------
(* pathnameTemplateText.subst *)

\* The chain is [text, next]: the root's text and the multipliers that follow
\* it in order, each [paramName, paramValues, text] with the text of its
\* continuation.  Node 0 is the root, node k the continuation of multiplier k.
NodeText(chain, k) == IF k = 0 THEN chain.text ELSE chain.next[k].text

SetNodeText(chain, k, text) ==
    IF k = 0 THEN [chain EXCEPT !.text = text]
    ELSE [chain EXCEPT !.next[k].text = text]

Placeholder(name) == <<"{">> \o name \o <<"}">>

\* A test that also wants the list to have elements.
listOccursNonEmpty(value, pos) == pos > 0 /\ Len(value.l) > 0

\* Whether the placeholder of a list-valued parameter was found.
listOccurs(value, pos) == pos > 0

\* A final return that counts the values of a list that does not occur.
substDefaultCountsList(value) ==
    IF value.kind = "list" THEN Len(value.l) ELSE 1

\* The final "return 1".
substDefault(value) == 1

\* t.subst(name, value) on node k: the chain after it, and the number of
\* substitution values n it returns.
subst(chain, k, name, value) ==
    LET text == NodeText(chain, k)
        pos  == Index(text, Placeholder(name))
    IN  IF value.kind = "string"
        THEN [chain |-> SetNodeText(chain, k,
                                    Replace(text, Placeholder(name), value.s)),
              n |-> substDefault(value)]
        ELSE IF value.kind # "list"
        THEN [chain |-> SetNodeText(chain, k,
                                    Replace(text, Placeholder(name), value.s)),
              n |-> substDefault(value)]
        ELSE IF listOccurs(value, pos)
        THEN LET m == [paramName |-> name,
                       paramValues |-> value.l,
                       text |-> SubSeq(text, pos + Len(name) + 2, Len(text))]
                 cut == SetNodeText(chain, k, SubSeq(text, 1, pos - 1))
             IN  [chain |-> [cut EXCEPT !.next =
                                SubSeq(cut.next, 1, k) \o <<m>>
                                    \o SubSeq(cut.next, k + 1, Len(cut.next))],
                  n |-> Len(value.l)]
        ELSE [chain |-> chain, n |-> substDefault(value)]

----------------------------------------------------------------------------
(* expandPathnameTemplate *)

\* The inner loop over the chain, from multiplier k on.
RECURSIVE substContinuations(_, _, _, _, _)
substContinuations(chain, k, name, value, size) ==
    IF k > Len(chain.next) THEN [chain |-> chain, resultSize |-> size]
    ELSE LET r == subst(chain, k, name, value)
         IN  substContinuations(r.chain, k + 1, name, value, size * r.n)

\* One iteration of the loop over params.
substParam(chain, size, name, value) ==
    LET r == subst(chain, 0, name, value)
    IN  substContinuations(r.chain, 1, name, value, size * r.n)

\* The result as allocated: resultSize entries with the root's text and a copy
\* of params each.
allocResult(chain, size, ps) ==
    [i \in 1..size |-> [filename |-> chain.text, params |-> ps]]

\* The three nested loops that append one multiplier's fragments.  One pass of
\* the loop over the values (j) with the loop over the slice (k) inside it
\* writes sliceSize entries for the first value, then sliceSize for the second
\* and so on; the outer loop (i < resultSize) repeats that pass until every
\* entry is written.  resultSize is a multiple of the length of a pass.
passValues(a, slice) ==
    [p \in 1..(Len(a.paramValues) * slice) |->
        a.paramValues[((p - 1) \div slice) + 1]]

fillLoop(res, a, slice) ==
    LET pass == passValues(a, slice)
    IN  [i \in 1..Len(res) |->
            LET value == pass[((i - 1) % Len(pass)) + 1]
                filenameFragment == value \o a.text
            IN  [filename |-> res[i].filename \o filenameFragment,
                 params |-> MapPut(res[i].params, a.paramName,
                                   StringValue(value))]]

\* A fill in which the multipliers met earlier vary slowest.
fillMultiplierOuterFirst(res, a, slice) ==
    LET n     == Len(a.paramValues)
        block == Len(res) \div (slice * n)
    IN  [i \in 1..Len(res) |->
            LET value == a.paramValues[(((i - 1) \div block) % n) + 1]
            IN  [filename |-> res[i].filename \o value \o a.text,
                 params |-> MapPut(res[i].params, a.paramName,
                                   StringValue(value))]]

fillMultiplier(res, a, slice) == fillLoop(res, a, slice)

----------------------------------------------------------------------------
(* The inputs of the expansion *)

ParamNames == {<<"a">>, <<"b">>}

\* What a pathname template is written from.
PartKinds == {Placeholder(<<"a">>), Placeholder(<<"b">>), <<"/">>, <<".", "c">>}

RECURSIVE SeqsUpTo(_, _)
SeqsUpTo(S, n) ==
    IF n = 0 THEN {<<>>}
    ELSE LET shorter == SeqsUpTo(S, n - 1)
         IN  shorter \cup {Append(q, x) : q \in shorter, x \in S}

RECURSIVE Flatten(_)
Flatten(parts) ==
    IF parts = <<>> THEN <<>> ELSE Head(parts) \o Flatten(Tail(parts))

\* The values a parameter may be bound to: literal text without braces.
ValuesOf(name) ==
    IF name = <<"a">>
    THEN {StringValue(<<"m">>), ListValue(<<>>),
          ListValue(<< <<"x">>, <<"y">> >>),
          ListValue(<< <<"u">>, <<"v">>, <<"w">> >>), OtherValue(<<"7">>)}
    ELSE {StringValue(<<"m">>), ListValue(<<>>),
          ListValue(<< <<"1">>, <<"2">> >>), ListValue(<< <<"z">> >>)}

\* Every binding of a subset of the names.
ParamSets ==
    UNION {{ps \in [D -> UNION {ValuesOf(n) : n \in D}] :
               \A n \in D : ps[n] \in ValuesOf(n)} : D \in SUBSET ParamNames}

----------------------------------------------------------------------------
(* The expansion as a state machine: one step per loop iteration *)

\* The whole expansion, with the range over params taking the names in the
\* given order.
RECURSIVE substInOrder(_, _, _, _)
substInOrder(chain, size, ps, order) ==
    IF order = <<>> THEN [chain |-> chain, resultSize |-> size]
    ELSE LET r == substParam(chain, size, Head(order), ps[Head(order)])
         IN  substInOrder(r.chain, r.resultSize, ps, Tail(order))

RECURSIVE fillFrom(_, _, _, _)
fillFrom(res, chain, k, slice) ==
    IF k > Len(chain.next) THEN res
    ELSE fillFrom(fillMultiplier(res, chain.next[k], slice), chain, k + 1,
                  slice * Len(chain.next[k].paramValues))

expandPathnameTemplate(path, ps, order) ==
    LET r == substInOrder([text |-> path, next |-> <<>>], 1, ps, order)
        allocated == allocResult(r.chain, r.resultSize, ps)
    IN  IF r.resultSize = 0 THEN allocated
        ELSE fillFrom(allocated, r.chain, 1, 1)

\* The orders in which a range over the map ps can take its names.
RangeOrders(ps) ==
    {order \in SeqsUpTo(DOMAIN ps, Cardinality(DOMAIN ps)) :
        /\ Len(order) = Cardinality(DOMAIN ps)
        /\ Elems(order) = DOMAIN ps}

InitExp ==
    /\ IdleTgt
    /\ IdleSel
    /\ IdleMat
    /\ pathnameParts \in SeqsUpTo(PartKinds, MaxParts)
    /\ pathname = Flatten(pathnameParts)
    /\ params \in ParamSets
    /\ pending = DOMAIN params
    /\ root = [text |-> pathname, next |-> <<>>]
    /\ resultSize = 1
    /\ result = <<>>
    /\ filling = 0
    /\ sliceSize = 1
    /\ epc = "subst"

\* The loop over params takes some next name: Go ranges over a map in no
\* fixed order.
ExpSubst ==
    /\ epc = "subst"
    /\ \E name \in pending :
         LET r == substParam(root, resultSize, name, params[name])
         IN  /\ root' = r.chain
             /\ resultSize' = r.resultSize
             /\ pending' = pending \ {name}
    /\ UNCHANGED <<pathnameParts, pathname, params, result, filling,
                   sliceSize, epc>>
    /\ UNCHANGED <<selVars, matVars, tgtVars>>

\* The result is allocated; an empty one is returned at once.
ExpAlloc ==
    /\ epc = "subst"
    /\ pending = {}
    /\ result' = allocResult(root, resultSize, params)
    /\ epc' = IF resultSize = 0 THEN "done" ELSE "fill"
    /\ filling' = 1
    /\ sliceSize' = 1
    /\ UNCHANGED <<pathnameParts, pathname, params, pending, root, resultSize>>
    /\ UNCHANGED <<selVars, matVars, tgtVars>>

\* The loop over the chain appends the next multiplier's fragments.  With no
\* values and a non-empty result the code's loop would not end.
ExpFill ==
    /\ epc = "fill"
    /\ filling <= Len(root.next)
    /\ Len(root.next[filling].paramValues) > 0
    /\ result' = fillMultiplier(result, root.next[filling], sliceSize)
    /\ sliceSize' = sliceSize * Len(root.next[filling].paramValues)
    /\ filling' = filling + 1
    /\ UNCHANGED <<pathnameParts, pathname, params, pending, root, resultSize,
                   epc>>
    /\ UNCHANGED <<selVars, matVars, tgtVars>>

ExpReturn ==
    /\ epc = "fill"
    /\ filling > Len(root.next)
    /\ epc' = "done"
    /\ UNCHANGED <<pathnameParts, pathname, params, pending, root, resultSize,
                   result, filling, sliceSize>>
    /\ UNCHANGED <<selVars, matVars, tgtVars>>

NextExp == ExpSubst \/ ExpAlloc \/ ExpFill \/ ExpReturn

SpecExp == InitExp /\ [][NextExp]_vars

----------------------------------------------------------------------------
(* Claims about the expansion *)

ListNames == {n \in DOMAIN params : params[n].kind = "list"}

\* How often {n} is written in the pathname template.
Occurrences(n) ==
    Cardinality({i \in 1..Len(pathnameParts) : pathnameParts[i] = Placeholder(n)})

OccurringLists == {n \in ListNames : Occurrences(n) >= 1}

\* The position of the first {n} among the parts.
FirstOccurrence(n) ==
    CHOOSE i \in 1..Len(pathnameParts) :
        /\ pathnameParts[i] = Placeholder(n)
        /\ \A j \in 1..(i - 1) : pathnameParts[j] # Placeholder(n)

RECURSIVE ProductOfLengths(_)
ProductOfLengths(names) ==
    IF names = {} THEN 1
    ELSE LET n == CHOOSE x \in names : TRUE
         IN  Len(params[n].l) * ProductOfLengths(names \ {n})

\* The template with every {name} that ps binds replaced by its value there.
Instantiate(parts, ps) ==
    Flatten([i \in 1..Len(parts) |->
               IF \E n \in DOMAIN ps : parts[i] = Placeholder(n)
               THEN ps[CHOOSE n \in DOMAIN ps : parts[i] = Placeholder(n)].s
               ELSE parts[i]])

\* "{a}/{b}.c"
ExampleTemplate ==
    <<Placeholder(<<"a">>), <<"/">>, Placeholder(<<"b">>), <<".", "c">>>>

\* C6: when no list-valued parameter occurs twice, the number of outputs is
\* the product of the lengths of the list-valued parameters that occur; every
\* output has its own mapping, with each such name rebound to one element of
\* its list, the one in that output's pathname, and everything else as given;
\* no two outputs have the same mapping; "{a}/{b}.c" with a = [x, y], b = "m"
\* gives x/m.c, y/m.c in that order.
C6_ProductOfLists ==
    (epc = "done" /\ \A n \in ListNames : Occurrences(n) <= 1) =>
        /\ Len(result) = ProductOfLengths(OccurringLists)
        /\ \A i \in 1..Len(result) :
              /\ DOMAIN result[i].params = DOMAIN params
              /\ \A n \in DOMAIN params :
                    IF n \in OccurringLists
                    THEN /\ result[i].params[n].kind = "string"
                         /\ result[i].params[n].s \in Elems(params[n].l)
                    ELSE result[i].params[n] = params[n]
              /\ result[i].filename = Instantiate(pathnameParts, result[i].params)
        /\ \A i \in 1..Len(result), j \in 1..Len(result) :
              i # j => result[i].params # result[j].params
        /\ (/\ pathnameParts = ExampleTemplate
            /\ DOMAIN params = ParamNames
            /\ params[<<"a">>] = ListValue(<< <<"x">>, <<"y">> >>)
            /\ params[<<"b">>] = StringValue(<<"m">>))
              => /\ Len(result) = 2
                 /\ result[1].filename = <<"x", "/", "m", ".", "c">>
                 /\ result[2].filename = <<"y", "/", "m", ".", "c">>
                 /\ result[1].params[<<"a">>] = StringValue(<<"x">>)
                 /\ result[2].params[<<"a">>] = StringValue(<<"y">>)

\* The worked example has run to its return.
C6_Witness ==
    /\ epc = "done"
    /\ pathnameParts = ExampleTemplate
    /\ DOMAIN params = ParamNames
    /\ params[<<"a">>] = ListValue(<< <<"x">>, <<"y">> >>)
    /\ params[<<"b">>] = StringValue(<<"m">>)
    /\ Len(result) = 2

\* Both names are lists and each occurs exactly once.
TwoLists ==
    /\ ListNames = ParamNames
    /\ \A n \in ParamNames : Occurrences(n) = 1

FirstName == CHOOSE n \in ParamNames : \A o \in ParamNames :
                 FirstOccurrence(n) <= FirstOccurrence(o)

SecondName == CHOOSE n \in ParamNames : n # FirstName

\* Output i (counted from 0) has n rebound to element index (counted from 0)
\* of n's list.
ElementOf(i, n, index) == result[i + 1].params[n] = StringValue(params[n].l[index + 1])

\* C7 as stated: the placeholder that occurs first is the outermost loop and
\* the later one varies fastest.
C7_FirstIsOutermost ==
    (epc = "done" /\ TwoLists) =>
        LET nSecond == Len(params[SecondName].l)
        IN  \A i \in 0..(Len(result) - 1) :
               /\ ElementOf(i, FirstName, i \div nSecond)
               /\ ElementOf(i, SecondName, i % nSecond)

\* C7, amended: the placeholder that occurs first varies fastest and the
\* later one is the outermost loop, each in its list's order; "{a}/{b}" with
\* a = [x, y], b = [1, 2] gives x/1, y/1, x/2, y/2.
C7_FirstVariesFastest ==
    (epc = "done" /\ TwoLists) =>
        LET nFirst == Len(params[FirstName].l)
        IN  /\ Len(result) = nFirst * Len(params[SecondName].l)
            /\ \A i \in 0..(Len(result) - 1) :
                  /\ ElementOf(i, FirstName, i % nFirst)
                  /\ ElementOf(i, SecondName, i \div nFirst)
                  /\ result[i + 1].filename =
                        Instantiate(pathnameParts, result[i + 1].params)
            /\ (/\ pathnameParts =
                      <<Placeholder(<<"a">>), <<"/">>, Placeholder(<<"b">>)>>
                /\ params[<<"a">>] = ListValue(<< <<"x">>, <<"y">> >>)
                /\ params[<<"b">>] = ListValue(<< <<"1">>, <<"2">> >>))
                  => [i \in 1..Len(result) |-> result[i].filename] =
                         << <<"x", "/", "1">>, <<"y", "/", "1">>,
                            <<"x", "/", "2">>, <<"y", "/", "2">> >>

C7_Witness ==
    /\ epc = "done"
    /\ pathnameParts = <<Placeholder(<<"a">>), <<"/">>, Placeholder(<<"b">>)>>
    /\ DOMAIN params = ParamNames
    /\ params[<<"a">>] = ListValue(<< <<"x">>, <<"y">> >>)
    /\ params[<<"b">>] = ListValue(<< <<"1">>, <<"2">> >>)
    /\ Len(result) = 4

\* C8: when a placeholder that occurs in the pathname is bound to an empty
\* list, the expansion returns no output, straight from the allocation and
\* whatever the order the parameters were taken in.
C8_EmptyListNoOutput ==
    (/\ epc \in {"fill", "done"}
     /\ \E n \in OccurringLists : params[n].l = <<>>)
        => epc = "done" /\ result = <<>> /\ resultSize = 0

\* The empty list is met after a list with elements, in the continuation of
\* that list's multiplier.
C8_Witness ==
    /\ epc = "done"
    /\ pathnameParts = <<Placeholder(<<"a">>), <<"/">>, Placeholder(<<"b">>)>>
    /\ DOMAIN params = ParamNames
    /\ params[<<"a">>] = ListValue(<< <<"x">>, <<"y">> >>)
    /\ params[<<"b">>] = ListValue(<<>>)
    /\ Len(root.next) = 2
    /\ result = <<>>

\* C15 as stated: every output's pathname is the template with each {name}
\* replaced by what that output's own mapping binds to name, also when a
\* list-valued name occurs more than once: its occurrences in one output then
\* carry the same element, and the name multiplies the outputs once.
C15_SelfConsistent ==
    epc = "done" =>
        /\ Len(result) = ProductOfLengths(OccurringLists)
        /\ \A i \in 1..Len(result) :
              result[i].filename = Instantiate(pathnameParts, result[i].params)

----------------------------------------------------------------------------
(* The build directory *)

\* File contents: what rendering a template's contents with a parameter
\* mapping writes, or bytes no template of the package renders.
render(templateContents, fpParams) ==
    [tmpl |-> templateContents, params |-> fpParams]

NoContents == [tmpl |-> "", params |-> <<>>]
StaleContents == [tmpl |-> "stale", params |-> <<>>]

\* What os.Lstat finds at a pathname of the build directory.
Absent == [kind |-> "absent", contents |-> NoContents, target |-> <<>>]
RegularFile(c) == [kind |-> "file", contents |-> c, target |-> <<>>]
Symlink(t) == [kind |-> "link", contents |-> NoContents, target |-> t]
\* A directory that is not empty: os.Remove fails on it.
Directory == [kind |-> "dir", contents |-> NoContents, target |-> <<>>]

\* filepath.Join(sourceDir, relativePathname)
SourcePathname(relativePathname) == <<"s", "r", "c", "/">> \o relativePathname

\* A pathname outside the package's source root.
ElsewherePathname == <<"e", "l", "s", "e">>

packageDefinitionFilename == <<"p">>

----------------------------------------------------------------------------
(* executeFileTemplate and generateFilesFromFileTemplate *)

\* The expansions of the template's pathname, each rendered with its own
\* parameters.  The templates are taken to parse and to execute.
executeFileTemplate(templatePathname, templateContents, ps, order) ==
    LET fps == expandPathnameTemplate(templatePathname, ps, order)
    IN  [i \in 1..Len(fps) |->
            [filename |-> fps[i].filename,
             contents |-> render(templateContents, fps[i].params)]]

\* A comparison that never finds the old contents equal.
sameContentsNever(oldContents, newContents) == FALSE

\* bytes.Compare(oldContents, outputFile.contents) == 0
sameContents(oldContents, newContents) == oldContents = newContents

\* A loop that goes on to the next output file when the contents are equal.
onSameContentsContinue == "next"

\* What the loop over outputFiles does when the contents are equal.
onSameContents == "return"

\* One iteration of the loop over outputFiles, on the build directory dir:
\* the directory after it, what it printed (mode "" when nothing), and how the
\* loop goes on: "next", "return" (nil) or "error".
generateOutputFile(dir, outputFile) ==
    LET projectFile == outputFile.filename
        existing == dir[projectFile]
        written  == [dir EXCEPT ![projectFile] = RegularFile(outputFile.contents)]
    IN  IF existing.kind = "absent"
        THEN [fs |-> written, mode |-> "A", then |-> "next"]
        ELSE IF existing.kind = "file"
        THEN IF sameContents(existing.contents, outputFile.contents)
             THEN [fs |-> dir, mode |-> "", then |-> onSameContents]
             ELSE [fs |-> written, mode |-> "U", then |-> "next"]
        ELSE IF existing.kind = "link"
        THEN [fs |-> written, mode |-> "R", then |-> "next"]
        ELSE \* a directory: ReadFile fails, mode stays "R", os.Remove fails
             [fs |-> dir, mode |-> "R", then |-> "error"]

----------------------------------------------------------------------------
(* linkFilesFromSourceDir *)

\* The files filepath.Walk visits in the source root, in lexical order.
walkOrder(srcs) ==
    SelectSeq(<<packageDefinitionFilename, <<"s">>, <<"x">>, <<"y">>>>,
              LAMBDA f : f = packageDefinitionFilename \/ f \in srcs)

\* A linkFile that takes any symlink at the target for the right one.
linkFileKeepsAnyLink(dir, relativePathname) ==
    LET existing == dir[relativePathname]
        linked   == [dir EXCEPT ![relativePathname] =
                                    Symlink(SourcePathname(relativePathname))]
    IN  IF existing.kind = "absent"
        THEN [fs |-> linked, mode |-> "L", err |-> FALSE]
        ELSE IF existing.kind = "link"
        THEN [fs |-> dir, mode |-> "", err |-> FALSE]
        ELSE IF existing.kind = "dir"
        THEN [fs |-> dir, mode |-> "", err |-> TRUE]
        ELSE [fs |-> linked, mode |-> "L", err |-> FALSE]

\* linkFile: the build directory after it, whether it printed "L", and
\* whether it failed.
linkFile(dir, relativePathname) ==
    LET sourcePathname == SourcePathname(relativePathname)
        targetPathname == relativePathname
        existing == dir[targetPathname]
        linked   == [dir EXCEPT ![targetPathname] = Symlink(sourcePathname)]
    IN  IF existing.kind = "absent"
        THEN [fs |-> linked, mode |-> "L", err |-> FALSE]
        ELSE IF existing.kind = "link" /\ existing.target = sourcePathname
        THEN [fs |-> dir, mode |-> "", err |-> FALSE]
        ELSE IF existing.kind = "dir"
        THEN [fs |-> dir, mode |-> "", err |-> TRUE]
        ELSE [fs |-> linked, mode |-> "L", err |-> FALSE]

\* The walk function of getFileGenerationWalkFunc: whether the file is
\* handed to processFile.
walkProcesses(relativePathname) ==
    relativePathname # packageDefinitionFilename

----------------------------------------------------------------------------
(* The inputs of the materialization *)

\* The file templates a project template is made of: one whose pathname
\* expands, and two with literal pathnames that its expansions also have.
TemplateFiles ==
    {[pathname |-> Placeholder(<<"a">>), contents |-> "c1"],
     [pathname |-> <<"y">>, contents |-> "c2"],
     [pathname |-> <<"x">>, contents |-> "c3"]}

\* Project templates: lists of different file templates.
ProjectTemplates ==
    {t \in SeqsUpTo(TemplateFiles, MaxTemplates) :
        \A i \in 1..Len(t), j \in 1..Len(t) : i # j => t[i] # t[j]}

PackageParams == [n \in {<<"a">>} |-> ListValue(<< <<"x">>, <<"y">> >>)]

\* The relative pathnames a package may have source files at.
SourceNames == {<<"x">>, <<"s">>}

BuildPaths == {<<"x">>, <<"y">>, <<"s">>, packageDefinitionFilename}

\* The output files of the file template t.
OutputsOf(t) ==
    UNION {Elems(executeFileTemplate(t.pathname, t.contents, PackageParams, order)) :
              order \in RangeOrders(PackageParams)}

\* What a template of TemplateFiles renders for the pathname f.
RenderedFor(f) ==
    {o.contents : o \in {o2 \in UNION {OutputsOf(t) : t \in TemplateFiles} :
                            o2.filename = f}}

\* What the build directory may hold at f before the first run.
InitialEntries(f, srcs) ==
    IF f = packageDefinitionFilename \/ (f = <<"s">> /\ f \notin srcs)
    THEN {Absent}
    ELSE {Absent, RegularFile(StaleContents), Symlink(ElsewherePathname)}
         \cup {RegularFile(c) : c \in RenderedFor(f)}
         \cup {Symlink(SourcePathname(f)) : g \in {f} \cap srcs}
         \cup {Directory : g \in {f} \ {<<"s">>}}

----------------------------------------------------------------------------
(* The materialization as a state machine *)

InitMat ==
    /\ IdleTgt
    /\ IdleSel
    /\ IdleExp
    /\ sources \in SUBSET SourceNames
    /\ templates \in ProjectTemplates
    /\ pdParams = PackageParams
    /\ \E ex \in InitialEntries(<<"x">>, sources),
          ey \in InitialEntries(<<"y">>, sources),
          es \in InitialEntries(<<"s">>, sources) :
            fs = [f \in BuildPaths |->
                     CASE f = <<"x">> -> ex
                       [] f = <<"y">> -> ey
                       [] f = <<"s">> -> es
                       [] OTHER -> Absent]
    /\ run = 1
    /\ mpc = "link"
    /\ walk = walkOrder(sources)
    /\ sourceFiles = {}
    /\ tIdx = 0
    /\ outputFiles = <<>>
    /\ oIdx = 0
    /\ reports = {}
    /\ earlier = {}

Printed(m, file) == IF m = "" THEN {} ELSE {[mode |-> m, file |-> file]}

\* filepath.Walk hands the next file of the source root to the walk function.
LinkWalk ==
    /\ mpc = "link"
    /\ walk # <<>>
    /\ LET relativePathname == Head(walk)
            r == linkFile(fs, relativePathname)
       IN  IF walkProcesses(relativePathname)
           THEN /\ sourceFiles' = sourceFiles \cup {relativePathname}
                /\ fs' = r.fs
                /\ reports' = reports \cup Printed(r.mode, relativePathname)
                /\ mpc' = IF r.err THEN "error" ELSE "link"
           ELSE UNCHANGED <<sourceFiles, fs, reports, mpc>>
    /\ walk' = Tail(walk)
    /\ UNCHANGED <<sources, templates, pdParams, run, tIdx, outputFiles, oIdx,
                   earlier>>
    /\ UNCHANGED <<selVars, expVars, tgtVars>>

\* linkFilesFromSourceDir returns; the loop over the file templates starts.
LinkReturn ==
    /\ mpc = "link"
    /\ walk = <<>>
    /\ mpc' = "templates"
    /\ tIdx' = 1
    /\ UNCHANGED <<sources, templates, pdParams, fs, run, walk, sourceFiles,
                   outputFiles, oIdx, reports, earlier>>
    /\ UNCHANGED <<selVars, expVars, tgtVars>>

\* The loop over *t takes the next file template: it is skipped when its
\* pathname is a source file's, else executed.
TemplateNext ==
    /\ mpc = "templates"
    /\ tIdx <= Len(templates)
    /\ LET fileInfo == templates[tIdx]
       IN  IF fileInfo.pathname \in sourceFiles
           THEN /\ tIdx' = tIdx + 1
                /\ UNCHANGED <<mpc, outputFiles, oIdx>>
           ELSE /\ \E order \in RangeOrders(pdParams) :
                     outputFiles' = executeFileTemplate(fileInfo.pathname,
                                        fileInfo.contents, pdParams, order)
                /\ oIdx' = 1
                /\ mpc' = "outputs"
                /\ UNCHANGED tIdx
    /\ UNCHANGED <<sources, templates, pdParams, fs, run, walk, sourceFiles,
                   reports, earlier>>
    /\ UNCHANGED <<selVars, expVars, tgtVars>>

\* The loop over outputFiles handles the next output file.
GenerateOutput ==
    /\ mpc = "outputs"
    /\ oIdx <= Len(outputFiles)
    /\ LET r == generateOutputFile(fs, outputFiles[oIdx])
       IN  /\ fs' = r.fs
           /\ reports' = reports \cup Printed(r.mode, outputFiles[oIdx].filename)
           /\ oIdx' = oIdx + 1
           /\ mpc' = CASE r.then = "error" -> "error"
                       [] r.then = "return" -> "returned"
                       [] OTHER -> "outputs"
    /\ UNCHANGED <<sources, templates, pdParams, run, walk, sourceFiles, tIdx,
                   outputFiles, earlier>>
    /\ UNCHANGED <<selVars, expVars, tgtVars>>

\* The loop over outputFiles is through: generateFilesFromFileTemplate
\* returns nil.
GenerateLoopEnd ==
    /\ mpc = "outputs"
    /\ oIdx > Len(outputFiles)
    /\ mpc' = "returned"
    /\ UNCHANGED <<sources, templates, pdParams, fs, run, walk, sourceFiles,
                   tIdx, outputFiles, oIdx, reports, earlier>>
    /\ UNCHANGED <<selVars, expVars, tgtVars>>

\* Back in the loop over *t.
TemplateDone ==
    /\ mpc = "returned"
    /\ mpc' = "templates"
    /\ tIdx' = tIdx + 1
    /\ UNCHANGED <<sources, templates, pdParams, fs, run, walk, sourceFiles,
                   outputFiles, oIdx, reports, earlier>>
    /\ UNCHANGED <<selVars, expVars, tgtVars>>

\* generateBuildFilesFromEmbeddedTemplate returns nil.
MaterializeReturn ==
    /\ mpc = "templates"
    /\ tIdx > Len(templates)
    /\ mpc' = "done"
    /\ UNCHANGED <<sources, templates, pdParams, fs, run, walk, sourceFiles,
                   tIdx, outputFiles, oIdx, reports, earlier>>
    /\ UNCHANGED <<selVars, expVars, tgtVars>>

\* The materializer is run again, with the same sources, templates and
\* parameters, on the build directory the run before left.
RunAgain ==
    /\ mpc = "done"
    /\ run < MaxRuns
    /\ run' = run + 1
    /\ mpc' = "link"
    /\ walk' = walkOrder(sources)
    /\ sourceFiles' = {}
    /\ tIdx' = 0
    /\ outputFiles' = <<>>
    /\ oIdx' = 0
    /\ reports' = {}
    /\ earlier' = earlier \cup reports
    /\ UNCHANGED <<sources, templates, pdParams, fs>>
    /\ UNCHANGED <<selVars, expVars, tgtVars>>

NextMat ==
    \/ LinkWalk
    \/ LinkReturn
    \/ TemplateNext
    \/ GenerateOutput
    \/ GenerateLoopEnd
    \/ TemplateDone
    \/ MaterializeReturn
    \/ RunAgain

SpecMat == InitMat /\ [][NextMat]_vars

----------------------------------------------------------------------------
(* Claims about the materialization *)

\* C9 as stated: when generateFilesFromFileTemplate has returned nil, every
\* output file its template expands to is in the build directory, a regular
\* file with that expansion's rendered contents, whatever the other
\* expansions found there.
C9_EveryExpansionWritten ==
    mpc = "returned" =>
        \A i \in 1..Len(outputFiles) :
            fs[outputFiles[i].filename] = RegularFile(outputFiles[i].contents)

Modes(rs) == {r.mode : r \in rs}

\* C10 as stated: a second run in a row prints no "A" and no "U", whatever
\* the build directory was before the first.
C10_SecondRunQuiet ==
    run >= 2 => Modes(reports) \cap {"A", "U"} = {}

\* The output files the loop over the file templates writes: those of the
\* templates whose pathname is no source file's.
WrittenOutputs ==
    UNION {OutputsOf(templates[i]) :
              i \in {j \in 1..Len(templates) : templates[j].pathname \notin sources}}

\* Two output files of the package have the same pathname and different
\* contents.
ConflictingOutputs ==
    \E o1 \in WrittenOutputs, o2 \in WrittenOutputs :
        o1.filename = o2.filename /\ o1.contents # o2.contents

\* C10, amended: when no two output files of the package share a pathname with
\* different contents, a second run in a row prints no "A" and no "U",
\* whatever the build directory was before the first.
C10_SecondRunQuietWithoutConflict ==
    (run >= 2 /\ ~ConflictingOutputs) => Modes(reports) \cap {"A", "U"} = {}

\* A second run of two file templates is through, after a first run that
\* added one output file and updated another.
C10_Witness ==
    /\ run = 2 /\ mpc = "done"
    /\ Len(templates) = 2
    /\ ~ConflictingOutputs
    /\ Cardinality(WrittenOutputs) >= 2
    /\ {"A", "U"} \subseteq Modes(earlier)
    /\ \A o \in WrittenOutputs : fs[o.filename] = RegularFile(o.contents)

\* C11 as stated: during and after the generate step nothing is written or
\* removed at a path of the "covered by source" set, so every source file's
\* pathname still holds the symlink to that source file that the link step
\* left there, also when an expansion of a template pathname is that path.
C11_SourceLinksKept ==
    mpc \in {"templates", "outputs", "returned", "done"} =>
        \A f \in sourceFiles : fs[f] = Symlink(SourcePathname(f))

\* The symlink the link step makes for the source file f.
LinkTo(f) == Symlink(SourcePathname(f))

\* A step of the link step, as C13 has it: a file whose path holds the right
\* link already is recorded and the build directory is left as it is, with
\* nothing printed; and when linkFilesFromSourceDir returns without error,
\* every source file's path holds the link to it, the package-definition
\* file has none, and sourceFiles is exactly the set of the source files.
C13_LinkStep ==
    /\ (/\ mpc = "link" /\ walk # <<>>
        /\ walkProcesses(Head(walk))
        /\ fs[Head(walk)] = LinkTo(Head(walk)))
           => /\ fs' = fs
              /\ reports' = reports
              /\ Head(walk) \in sourceFiles'
    /\ (mpc = "link" /\ mpc' = "templates")
           => /\ sourceFiles' = sources
              /\ \A f \in sources : fs'[f] = LinkTo(f)
              /\ fs'[packageDefinitionFilename] = Absent

\* C13: after linkFilesFromSourceDir returns without error every regular file
\* of the source root but the package-definition file has its symlink in the
\* build directory, whatever was at the path before; a right link is neither
\* removed nor made again; the set returned is exactly those files' paths.
C13_LinksAfterLinkStep == [][C13_LinkStep]_vars

\* The link step of a first run has returned: the link for x had to be made,
\* where something else was, and the link for s was there already.
C13_Witness ==
    /\ run = 1 /\ mpc = "templates" /\ tIdx = 1
    /\ sources = {<<"x">>, <<"s">>}
    /\ sourceFiles = sources
    /\ [mode |-> "L", file |-> <<"x">>] \in reports
    /\ [mode |-> "L", file |-> <<"s">>] \notin reports
    /\ fs[<<"x">>] = LinkTo(<<"x">>) /\ fs[<<"s">>] = LinkTo(<<"s">>)

----------------------------------------------------------------------------
(* The target lists of the "bootstrap" and "configure" target types.  Text is
   a sequence of pieces; a package name is one piece, "/" and "_" are pieces
   of their own. *)

\* The directory names under which the packages are kept; neither is empty
\* and neither holds a slash.
privateDirName == <<".atta">>
pkgDirName == <<"pkg">>

RECURSIVE joinWithSlash(_)
joinWithSlash(elems) ==
    IF Len(elems) = 1 THEN elems[1]
    ELSE elems[1] \o <<"/">> \o joinWithSlash(Tail(elems))

\* path.Join: the elements that are not empty, joined with slashes, and the
\* result cleaned, which drops the "." elements.
pathJoin(elems) ==
    LET nonEmpty == SelectSeq(elems, LAMBDA e : e # <<>>)
        kept     == SelectSeq(nonEmpty, LAMBDA e : e # <<".">>)
    IN  IF nonEmpty = <<>> THEN <<>>
        ELSE IF kept = <<>> THEN <<".">>
        ELSE joinWithSlash(kept)

\* An aggregate whose dependencies are in the reverse of the selection's order.
globalTargetReversed(name, sel) ==
    [Target |-> name, Phony |-> TRUE,
     Dependencies |-> [i \in 1..Len(sel) |->
                          name \o <<"_">> \o sel[Len(sel) + 1 - i]],
     MakeScript |-> <<>>]

\* mtd.globalTarget()
globalTarget(name, sel) ==
    LET prefix == name \o <<"_">>
    IN  [Target |-> name, Phony |-> TRUE,
         Dependencies |-> [i \in 1..Len(sel) |-> prefix \o sel[i]],
         MakeScript |-> <<>>]

\* The two targets bootstrapTarget.targets appends for selection[i].
bootstrapPair(gt, i, PackageName) ==
    << [Target |-> gt.Dependencies[i], Phony |-> TRUE,
        Dependencies |-> <<>>,
        MakeScript |-> <<"@echo [bootstrap] ">> \o PackageName
                       \o <<" @cd ">>
                       \o pathJoin(<<privateDirName, pkgDirName, PackageName>>)
                       \o <<" && ./autogen.sh">>],
       [Target |-> pathJoin(<<privateDirName, pkgDirName, PackageName,
                              <<"configure">>>>),
        Phony |-> FALSE, Dependencies |-> <<>>,
        MakeScript |-> <<"@$(MAKE) -s ">> \o gt.Dependencies[i]] >>

\* The two targets configureTarget.targets appends for selection[i].
configurePair(gt, i, PackageName, rel, cmd) ==
    LET script == <<"@">> \o cmd \o <<" configure ">> \o PackageName
    IN  << [Target |-> gt.Dependencies[i], Phony |-> TRUE,
            Dependencies |-> <<>>, MakeScript |-> script],
           [Target |-> pathJoin(<<rel, PackageName, <<"Makefile">>>>),
            Phony |-> FALSE, Dependencies |-> <<>>, MakeScript |-> script] >>

(* The inputs of targets() *)

TargetNames == {<<"bootstrap">>, <<"configure">>}

\* Selections: lists of different packages, in any order.
Selections ==
    {sel \in SeqsUpTo(PackageNames, MaxSelection) :
        \A i \in 1..Len(sel), j \in 1..Len(sel) : i # j => sel[i] # sel[j]}

\* The build directory is the workspace directory, is under it, or is beside it.
RelBuildDirs == {<<".">>, <<"build">>, <<"..", "/", "build">>}

\* os.Executable gives the path of the running program, or fails.
Executables == {[cmd |-> <<"atta">>, err |-> FALSE],
                [cmd |-> <<>>, err |-> TRUE]}

InitTgt ==
    /\ IdleSel
    /\ IdleExp
    /\ IdleMat
    /\ targetName \in TargetNames
    /\ tgtSelection \in Selections
    /\ IF targetName = <<"configure">>
       THEN relBuildDir \in RelBuildDirs /\ executable \in Executables
       ELSE relBuildDir = <<>> /\ executable = [cmd |-> <<>>, err |-> FALSE]
    /\ globalTargetLocal = NoTarget
    /\ targetList = <<>>
    /\ ti = 0
    /\ tpc = "global"

\* targets() up to its loop: the aggregate is made and starts the list; the
\* configure type then asks for the executable and returns nil when that fails.
TargetsGlobal ==
    /\ tpc = "global"
    /\ globalTargetLocal' = globalTarget(targetName, tgtSelection)
    /\ IF targetName = <<"configure">> /\ executable.err
       THEN targetList' = <<>> /\ tpc' = "error" /\ UNCHANGED ti
       ELSE /\ targetList' = <<globalTarget(targetName, tgtSelection)>>
            /\ tpc' = "loop"
            /\ ti' = 1
    /\ UNCHANGED <<targetName, tgtSelection, relBuildDir, executable>>
    /\ UNCHANGED <<selVars, expVars, matVars>>

\* One iteration of the loop over the selection.
TargetsAppend ==
    /\ tpc = "loop"
    /\ ti <= Len(tgtSelection)
    /\ targetList' = targetList \o
           (IF targetName = <<"bootstrap">>
            THEN bootstrapPair(globalTargetLocal, ti, tgtSelection[ti])
            ELSE configurePair(globalTargetLocal, ti, tgtSelection[ti],
                               relBuildDir, executable.cmd))
    /\ ti' = ti + 1
    /\ UNCHANGED <<targetName, tgtSelection, relBuildDir, executable,
                   globalTargetLocal, tpc>>
    /\ UNCHANGED <<selVars, expVars, matVars>>

\* targets() returns the list.
TargetsReturn ==
    /\ tpc = "loop"
    /\ ti > Len(tgtSelection)
    /\ tpc' = "done"
    /\ UNCHANGED <<targetName, tgtSelection, relBuildDir, executable,
                   globalTargetLocal, targetList, ti>>
    /\ UNCHANGED <<selVars, expVars, matVars>>

NextTgt ==
    \/ TargetsGlobal
    \/ TargetsAppend
    \/ TargetsReturn

SpecTgt == InitTgt /\ [][NextTgt]_vars

----------------------------------------------------------------------------
(* Claims about the target lists *)

\* The last pieces of a file target: the package's name, a slash and the
\* file the target type makes for the package.
FileOf(name) == IF name = <<"bootstrap">> THEN <<"configure">> ELSE <<"Makefile">>

EndsWith(text, suffix) ==
    /\ Len(text) >= Len(suffix)
    /\ SubSeq(text, Len(text) - Len(suffix) + 1, Len(text)) = suffix

\* How many targets of the list have the name d.
Definitions(d) ==
    Cardinality({k \in 1..Len(targetList) : targetList[k].Target = d})

\* C12: the returned list starts with the phony aggregate named after the
\* target type, whose dependencies are "<type>_<PackageName>" in selection
\* order; then, for each package in that order, come the phony target of that
\* name and the package's file target.  Each dependency of the aggregate is
\* defined exactly once, and an empty selection gives the aggregate alone,
\* with no dependencies.
C12_TargetListOrder ==
    tpc = "done" =>
        LET n == Len(tgtSelection)
            prefix == targetName \o <<"_">>
        IN  /\ Len(targetList) = 1 + 2 * n
            /\ targetList[1].Target = targetName
            /\ targetList[1].Phony
            /\ targetList[1].Dependencies =
                   [i \in 1..n |-> prefix \o tgtSelection[i]]
            /\ \A i \in 1..n :
                   /\ targetList[2 * i].Target = prefix \o tgtSelection[i]
                   /\ targetList[2 * i].Phony
                   /\ ~targetList[2 * i + 1].Phony
                   /\ EndsWith(targetList[2 * i + 1].Target,
                               tgtSelection[i] \o <<"/">> \o FileOf(targetName))
                   /\ Definitions(targetList[1].Dependencies[i]) = 1
            /\ n = 0 => /\ Len(targetList) = 1
                        /\ targetList[1].Dependencies = <<>>

\* A list is returned for two packages selected against the definition order.
C12_Witness ==
    /\ tpc = "done"
    /\ targetName = <<"configure">>
    /\ tgtSelection = << <<"B">>, <<"A">> >>
    /\ Len(targetList) = 5
    /\ targetList[1].Dependencies =
           << <<"configure", "_", "B">>, <<"configure", "_", "A">> >>

====
